---- MODULE Spec2Model ----
(***************************************************************************)
(* Celestron mount driver (libs/OpenLiDAR/mount/Celestron.cpp).            *)
(*                                                                         *)
(* The model follows one Celestron object and the serial channel it talks  *)
(* to.  The object's fields are m_fd and m_connected; the process's        *)
(* descriptor table and the channel's input side (bytes received but not   *)
(* read, bytes the device has still to deliver) are the environment.       *)
(* Every driver call is one action, except connect(), whose                *)
(* checkConnection() loop is one step per echo() attempt.  The device and  *)
(* the kernel are nondeterministic: each exchange draws what the device    *)
(* answers, how many bytes arrive inside the read timeout, and how many    *)
(* bytes write() accepts.                                                  *)
(***************************************************************************)
EXTENDS Integers, Sequences, FiniteSets, TLC

(***************************************************************************)
(* Bounds of the model.                                                    *)
(***************************************************************************)
MaxResp == 3      \* longest answer the device sends to one command
MaxBuf == 1       \* most bytes left unread on the channel after a call
MaxHandles == 2   \* descriptors open() can hand out before it fails
AngleUnit == 64   \* angles are whole numbers of 1/AngleUnit degrees

(***************************************************************************)
(* Program constants.                                                      *)
(***************************************************************************)
CELESTRON_DEV_RA == 16
CELESTRON_DEV_DEC == 17

\* bytes the device answers with: '#', 'x'
DevBytes == {35, 120}
\* descriptors open() can return (0, 1, 2 are the standard streams)
Handles == 3..(2 + MaxHandles)

Min(a, b) == IF a < b THEN a ELSE b

BSeq(S, n) == UNION {[1..k -> S] : k \in 0..n}

\* (char)x as the byte that goes on the wire
Byte(x) == x % 256
\* a byte read back as a signed 8-bit value
S8(b) == IF b >= 128 THEN b - 256 ELSE b

Tag(q, t) == [k \in 1..Len(q) |-> <<q[k], t>>]
Untag(q) == [k \in 1..Len(q) |-> q[k][1]]

VARIABLES
    m_fd,         \* Celestron::m_fd
    m_connected,  \* Celestron::m_connected
    fds,          \* descriptors of this session that are open in the process
    closedFds,    \* descriptors close() was called on while open
    badClose,     \* close() was called on a descriptor that was not open
    inbuf,        \* bytes received on the channel and not yet read
    inflight,     \* bytes the device has sent and that have not arrived yet
    pc,           \* "idle", or "check" inside connect()'s checkConnection()
    i,            \* loop counter of checkConnection()
    alive,        \* FALSE once the destructor has run
    last,         \* the most recent call: name, arguments, result, state on entry
    log,          \* the send_command exchanges of the most recent call
    frame         \* local variables of the call that is running

vars == <<m_fd, m_connected, fds, closedFds, badClose, inbuf, inflight,
          pc, i, alive, last, log, frame>>

(***************************************************************************)
(* The environment's draw for one send_command exchange.                   *)
(*   resp  what the device sends in answer to the command                  *)
(*   a     how many bytes of the line arrive inside readn's timeouts       *)
(*   w     how many bytes of the command write() accepts in total          *)
(***************************************************************************)
Envs(cmdLen) ==
    IF m_fd \in fds
    THEN {e \in [resp : BSeq(DevBytes, MaxResp), a : 0..(MaxBuf + MaxResp),
                 w : {0, cmdLen - 1, cmdLen}] :
             e.a <= Len(inflight) + Len(e.resp)}
    ELSE {[resp |-> <<>>, a |-> 0, w |-> 0]}

\* the object and its channel as one value the methods transform
Self ==
    [m_fd |-> m_fd, m_connected |-> m_connected, fds |-> fds,
     closedFds |-> closedFds, badClose |-> badClose,
     inbuf |-> inbuf, inflight |-> inflight,
     log |-> <<>>, ret |-> 0, resp |-> <<>>, out |-> <<>>]

(***************************************************************************)
(* Transport.  c is the channel during one exchange: its bytes carry the   *)
(* mark "stale" (received before the command), "late" (sent before the     *)
(* command, not yet received) or "fresh" (sent in answer to it).           *)
(***************************************************************************)
\* tcflush(m_fd, TCOFLUSH): only the output side is flushed
tcflush_output(c) == [c EXCEPT !.trace = Append(@, "flush")]

tcflush(c) ==
    IF c.ok
    THEN [c EXCEPT !.flushed = Len(c.inbuf), !.inbuf = <<>>,
                   !.trace = Append(@, "flush")]
    ELSE [c EXCEPT !.trace = Append(@, "flush")]

\* write() until everything is written or write() fails; the count is returned
writen(c, cmd, w) ==
    [c EXCEPT !.written = IF c.ok THEN w ELSE 0,
              !.wire = IF c.ok THEN SubSeq(cmd, 1, w) ELSE <<>>,
              !.trace = Append(@, "write")]

\* the device answers on the line
Device(c, resp) ==
    IF c.ok
    THEN [c EXCEPT !.inflight = @ \o Tag(resp, "fresh"), !.sent = Len(resp)]
    ELSE c

\* read() while select() reports data, until n bytes are read.  On a closed
\* descriptor select() fails; on m_fd = -1 the descriptor set is empty and
\* select() times out: no byte is read either way.
readn(c, n, a) ==
    IF c.ok /\ n > 0
    THEN LET arrived == c.inbuf \o SubSeq(c.inflight, 1, a)
             k == Min(n, Len(arrived))
         IN [c EXCEPT !.got = SubSeq(arrived, 1, k),
                      !.inbuf = SubSeq(arrived, k + 1, Len(arrived)),
                      !.inflight = SubSeq(c.inflight, a + 1, Len(c.inflight)),
                      !.arrived = a,
                      !.trace = Append(@, "read")]
    ELSE [c EXCEPT !.trace = Append(@, "read")]

Stale(q) == Cardinality({k \in 1..Len(q) : q[k][2] = "stale"})

send_command(s, cmd, resp_len, e) ==
    LET c0 == [ok |-> s.m_fd \in s.fds,
               inbuf |-> Tag(s.inbuf, "stale"),
               inflight |-> Tag(s.inflight, "late"),
               trace |-> <<>>, flushed |-> 0, written |-> 0, wire |-> <<>>,
               sent |-> 0,
               arrived |-> 0, got |-> <<>>]
        c4 == IF s.m_fd # 0
              THEN readn(Device(writen(tcflush(c0), cmd, e.w), e.resp),
                         resp_len, e.a)
              ELSE c0
        nbytes == IF s.m_fd # 0 THEN Len(c4.got) ELSE resp_len
        ret == IF nbytes # resp_len THEN 0
               ELSE IF resp_len = 0 THEN 1
               ELSE nbytes
        x == [cmd |-> cmd, rlen |-> resp_len, ok |-> c4.ok, trace |-> c4.trace,
              flushed |-> c4.flushed, late0 |-> Len(s.inflight),
              written |-> c4.written, wire |-> c4.wire,
              sent |-> c4.sent, arrived |-> c4.arrived,
              got |-> Untag(c4.got), stale |-> Stale(c4.got), ret |-> ret]
    IN [s EXCEPT !.inbuf = Untag(c4.inbuf), !.inflight = Untag(c4.inflight),
                 !.log = Append(@, x), !.ret = ret, !.resp = Untag(c4.got)]

(***************************************************************************)
(* Passthrough frames and the calls built on them.                         *)
(***************************************************************************)
\* memcpy(cmd + at, src, Len(src)) on a buffer indexed from 1
memcpy(cmd, at, src) ==
    [k \in 1..Len(cmd) |->
        IF k > at /\ k <= at + Len(src) THEN src[k - at] ELSE cmd[k]]

\* the length byte counts the payload only and the trailing byte is not
\* asked for
send_passthrough_short(s, dest, cmd_id, payload, response_len, e) ==
    LET cmd0 == [k \in 1..8 |-> 0]
        cmd1 == [cmd0 EXCEPT ![1] = 80,
                             ![2] = Byte(Len(payload)),
                             ![3] = Byte(dest),
                             ![4] = Byte(cmd_id),
                             ![8] = Byte(response_len)]
        cmd == memcpy(cmd1, 4, payload)
    IN send_command(s, cmd, response_len, e)

send_passthrough(s, dest, cmd_id, payload, response_len, e) ==
    LET cmd0 == [k \in 1..8 |-> 0]
        cmd1 == [cmd0 EXCEPT ![1] = 80,
                             ![2] = Byte(Len(payload) + 1),
                             ![3] = Byte(dest),
                             ![4] = Byte(cmd_id),
                             ![8] = Byte(response_len)]
        cmd == memcpy(cmd1, 4, payload)
    IN send_command(s, cmd, response_len + 1, e)

getDevFirmware(s, dev, e) ==
    LET s1 == send_passthrough(s, dev, 254, <<>>, 2, e)
        rlen == s1.ret
    IN CASE rlen = 2 -> [s1 EXCEPT !.ret = TRUE]
         [] rlen = 3 -> [s1 EXCEPT !.ret = TRUE]
         [] OTHER -> [s1 EXCEPT !.ret = FALSE]

Dev(dir) ==
    IF dir = "N" \/ dir = "S" THEN CELESTRON_DEV_DEC ELSE CELESTRON_DEV_RA

\* the sub-command ids of the two senses exchanged
move_swapped(s, dir, rate, e) ==
    LET dev == Dev(dir)
        cmd_id == IF dir = "N" \/ dir = "W" THEN 37 ELSE 36
        payload == <<Byte(rate + 1)>>
        s1 == send_passthrough(s, dev, cmd_id, payload, 0, e)
    IN [s1 EXCEPT !.ret = (s1.ret # 0)]

move(s, dir, rate, e) ==
    LET dev == Dev(dir)
        cmd_id == IF dir = "N" \/ dir = "W" THEN 36 ELSE 37
        payload == <<Byte(rate + 1)>>
        s1 == send_passthrough(s, dev, cmd_id, payload, 0, e)
    IN [s1 EXCEPT !.ret = (s1.ret # 0)]

stop(s, dir, e) ==
    LET dev == Dev(dir)
        payload == <<0>>
        s1 == send_passthrough(s, dev, 36, payload, 0, e)
    IN [s1 EXCEPT !.ret = (s1.ret # 0)]

\* the rate is sent as given for every direction
sendPulse_noneg(s, dir, rate, duration_csec, e) ==
    LET dev == Dev(dir)
        payload == <<Byte(rate), duration_csec>>
    IN send_passthrough(s, dev, 38, payload, 0, e)

sendPulse(s, dir, rate, duration_csec, e) ==
    LET dev == Dev(dir)
        payload == <<Byte(IF dir = "N" \/ dir = "W" THEN rate ELSE 0 - rate),
                     duration_csec>>
    IN send_passthrough(s, dev, 38, payload, 0, e)

(***************************************************************************)
(* Inputs of the calls.                                                    *)
(***************************************************************************)
Directions == {"N", "S", "E", "W"}
\* CELESTRON_SLEW_RATE: the slowest and the fastest rate
SlewRates == {0, 8}
\* signed char _rate
PulseRates == {-128, -127, -1, 0, 100, 127}
\* unsigned char _duration_csec
Durations == {0, 255}
\* _dest, _cmd_id, _payload and _response_len of send_passthrough
Dests == {CELESTRON_DEV_RA, CELESTRON_DEV_DEC}
CmdIds == {36, 254}
Payloads == {<<>>, <<7>>, <<7, 8>>, <<7, 8, 9>>}
RespLens == {0, 2}
\* _cmd and _resp_len of send_command: "J"
Cmds == {<<74>>}
CmdRespLens == {0, 1, 2}

(***************************************************************************)
(* Angle codec.  An angle is a whole number of 1/AngleUnit degrees (hours   *)
(* for a right ascension); a NexStar angle (uint32_t) is the pair <<H, L>>  *)
(* of its 16-bit halves; a double that is not a whole number of units       *)
(* keeps its remainder, so that equality of doubles is equality of values.  *)
(***************************************************************************)
\* 360 degrees in units
Turn == 360 * AngleUnit

\* the double n units
Exact(n) == [int |-> n, frac |-> <<0, 0, 0>>]

\* the nearest NexStar angle instead of the one below
dd2pnex_rounded(n) ==
    LET a0 == n - Turn * (n \div Turn)
        angle == IF a0 < 0 THEN a0 + Turn ELSE a0
        H == (angle * 65536) \div Turn
        r == (angle * 65536) % Turn
        L == (r * 65536) \div Turn
        up == IF 2 * ((r * 65536) % Turn) >= Turn THEN 1 ELSE 0
    IN <<(H + ((L + up) \div 65536)) % 65536, (L + up) % 65536>>

\* Convert decimal degrees to NexStar angle (precise)
dd2pnex(n) ==
    LET a0 == n - Turn * (n \div Turn)
        angle == IF a0 < 0 THEN a0 + Turn ELSE a0
        H == (angle * 65536) \div Turn
        r == (angle * 65536) % Turn
        L == (r * 65536) \div Turn
    IN <<H, L>>

\* 360.0 * ((double)value / 0x100000000)
pnex2dd(value) ==
    LET lo == value[2] * Turn
        hi == value[1] * Turn + (lo \div 65536)
    IN [int |-> hi \div 65536, frac |-> <<0, hi % 65536, lo % 65536>>]

\* d / 15.0
Div15(d) ==
    IF d.int % 15 = 0 /\ d.frac = <<0, 0, 0>>
    THEN Exact(d.int \div 15)
    ELSE [int |-> d.int \div 15, frac |-> <<1 + (d.int % 15), d.frac[2], d.frac[3]>>]

\* a - b for a whole number of units a and a double b
Minus(a, b) ==
    IF b.frac = <<0, 0, 0>>
    THEN Exact(a - b.int)
    ELSE LET l0 == (65536 - b.frac[3]) % 65536
             l1 == (65536 - b.frac[2] - (IF b.frac[3] = 0 THEN 0 ELSE 1)) % 65536
         IN [int |-> a - b.int - 1, frac |-> <<b.frac[1], l1, l0>>]

\* a < b, a <= b for a double a and a whole number of units b
Below(a, b) == a.int < b
AtMost(a, b) == a.int < b \/ (a.int = b /\ a.frac = <<0, 0, 0>>)

\* every angle above 180 is brought down by a turn and nothing is reflected
trimDecAngle_wrap(d) ==
    LET a0 == [d EXCEPT !.int = d.int - Turn * (d.int \div Turn)]
    IN IF ~AtMost(a0, 180 * AngleUnit)
       THEN [a0 EXCEPT !.int = @ - Turn]
       ELSE a0

trimDecAngle(d) ==
    LET a0 == [d EXCEPT !.int = d.int - Turn * (d.int \div Turn)]
        angle == IF Below(a0, 0) THEN [a0 EXCEPT !.int = @ + Turn] ELSE a0
    IN IF ~AtMost(angle, 90 * AngleUnit) /\ AtMost(angle, 270 * AngleUnit)
       THEN Minus(180 * AngleUnit, angle)
       ELSE IF ~AtMost(angle, 270 * AngleUnit) /\ AtMost(angle, Turn)
       THEN [angle EXCEPT !.int = @ - Turn]
       ELSE angle

(***************************************************************************)
(* Sexagesimal components.  A coordinate is a whole number of millionths   *)
(* of a degree.                                                            *)
(***************************************************************************)
Micro == 1000000

\* rint(x / Micro): the nearest integer; where x / Micro lies halfway the
\* double computed for it lies on either side
rint(x) ==
    LET q == x \div Micro
        r == x % Micro
    IN IF 2 * r > Micro THEN {q + 1}
       ELSE IF 2 * r = Micro THEN {q, q + 1}
       ELSE {q}

\* the seconds and the minutes are left at 60
getSexComponents_nocarry(value) ==
    LET a == IF value < 0 THEN 0 - value ELSE value
        d0 == a \div Micro
        m0 == ((a % Micro) * 60) \div Micro
    IN {[d |-> IF value < 0 THEN 0 - d0 ELSE d0, m |-> m0, s |-> s0] :
           s0 \in rint((((a % Micro) * 60) % Micro) * 60)}

getSexComponents(value) ==
    LET a == IF value < 0 THEN 0 - value ELSE value
        d0 == a \div Micro
        m0 == ((a % Micro) * 60) \div Micro
    IN {LET s1 == IF s0 = 60 THEN 0 ELSE s0
            m1 == IF s0 = 60 THEN m0 + 1 ELSE m0
            m2 == IF m1 = 60 THEN 0 ELSE m1
            d1 == IF m1 = 60 THEN d0 + 1 ELSE d0
        IN [d |-> IF value < 0 THEN 0 - d1 ELSE d1, m |-> m2, s |-> s1] :
           s0 \in rint((((a % Micro) * 60) % Micro) * 60)}

\* abs() of an int
abs(x) == IF x < 0 THEN 0 - x ELSE x

\* the 9 bytes of the 'W' command from the components of the two coordinates
LocationCmd(lat, long) ==
    <<87,
      Byte(abs(lat.d)), Byte(lat.m), Byte(lat.s), IF lat.d > 0 THEN 0 ELSE 1,
      Byte(abs(long.d)), Byte(long.m), Byte(long.s),
      IF long.d > 0 THEN 0 ELSE 1>>

\* setLocation, for each way the seconds of the two coordinates can round
setLocation(s, _longitude, _latitude, e) ==
    LET longitude == IF _longitude > 180 * Micro
                     THEN _longitude - 360 * Micro ELSE _longitude
    IN {LET s1 == send_command(s, LocationCmd(lat, long), 1, e)
        IN [s1 EXCEPT !.ret = (s1.ret # 0)] :
           lat \in getSexComponents(_latitude),
           long \in getSexComponents(longitude)}

\* coordinates passed to setLocation, in millionths of a degree
Latitudes == {0, 500000, 0 - 500000, 45500000, 0 - 33250000}
Longitudes == {250000, 0 - 250000, 10500000, 180000000, 181000000, 359750000}

(***************************************************************************)
(* Text commands: hexadecimal coordinates, slew, status poll, position.    *)
(***************************************************************************)
\* of n bytes on their way, the fewest that must arrive for the rest to fit
\* the channel after the read
Least(n) == IF n > MaxBuf THEN n - MaxBuf ELSE 0

\* the outcomes of one exchange when the device answers with one of Resps;
\* junk is what the response buffer holds when send_command reads nothing
\* into it and still reports success (m_fd = 0)
EnvsOf(cmdLen, Resps) ==
    IF m_fd \in fds
    THEN UNION {{[resp |-> r, a |-> k, w |-> w, junk |-> <<>>] :
                    k \in Least(Len(inflight) + Len(r))
                              ..(Len(inflight) + Len(r)),
                    w \in {0, cmdLen}} :
                r \in Resps}
    ELSE {[resp |-> <<>>, a |-> 0, w |-> 0, junk |-> j] :
             j \in IF m_fd = 0 THEN Resps ELSE {<<>>}}

\* the response buffer as the caller reads it
Response(s, e) == IF s.m_fd = 0 THEN e.junk ELSE s.resp
\* response[k - 1], a NUL where nothing was stored
At(buf, k) == IF k <= Len(buf) THEN buf[k] ELSE 0

\* "%X" of one digit
HexChar(d) == IF d < 10 THEN 48 + d ELSE 55 + d
\* "%04X" of a 16-bit half
Hex4(h) ==
    <<HexChar(h \div 4096), HexChar((h \div 256) % 16),
      HexChar((h \div 16) % 16), HexChar(h % 16)>>
\* "%08X"
Hex8(value) == Hex4(value[1]) \o Hex4(value[2])

IsHex(b) == b \in 48..57 \/ b \in 65..70 \/ b \in 97..102
HexVal(b) == IF b \in 48..57 THEN b - 48
             ELSE IF b \in 65..70 THEN b - 55 ELSE b - 87

\* the number of hexadecimal digits of buf from position k on (up to 8)
HexRun(buf, k) ==
    LET stops == {j \in 0..8 : j = 8 \/ ~IsHex(At(buf, k + j))}
    IN CHOOSE j \in stops : \A j2 \in stops : j <= j2

\* "%x" on n digits of buf from position k on
ScanHex(buf, k, n) ==
    LET digit(j) == IF j > 8 - n THEN HexVal(buf[k + j - (8 - n) - 1]) ELSE 0
    IN <<digit(1) * 4096 + digit(2) * 256 + digit(3) * 16 + digit(4),
         digit(5) * 4096 + digit(6) * 256 + digit(7) * 16 + digit(8)>>

\* sscanf(response, "%x,%x#", &d1_int, &d2_int) and the two conversions
parseCoordsResponse(buf) ==
    LET n1 == HexRun(buf, 1)
        d1_int == IF n1 > 0 THEN ScanHex(buf, 1, n1) ELSE <<0, 0>>
        comma == n1 > 0 /\ At(buf, n1 + 1) = 44
        n2 == IF comma THEN HexRun(buf, n1 + 2) ELSE 0
        d2_int == IF n2 > 0 THEN ScanHex(buf, n1 + 2, n2) ELSE <<0, 0>>
    IN <<pnex2dd(d1_int), pnex2dd(d2_int)>>

slewRADec(s, ra, dec, e) ==
    LET cmd == <<114>> \o Hex8(dd2pnex(ra * 15)) \o <<44>> \o Hex8(dd2pnex(dec))
    IN send_command(s, cmd, 1, e)

slewAzAlt(s, az, alt, e) ==
    LET cmd == <<98>> \o Hex8(dd2pnex(az)) \o <<44>> \o Hex8(dd2pnex(alt))
    IN send_command(s, cmd, 1, e)

isSlewing(s, e) ==
    LET s1 == send_command(s, <<76>>, 2, e)
    IN IF s1.ret = 0 THEN [s1 EXCEPT !.ret = FALSE]
       ELSE [s1 EXCEPT !.ret = (At(Response(s1, e), 1) # 48)]

getRADec(s, e) ==
    LET s1 == send_command(s, <<101>>, 18, e)
        d == parseCoordsResponse(Response(s1, e))
    IN IF s1.ret = 0 THEN [s1 EXCEPT !.ret = FALSE]
       ELSE [s1 EXCEPT !.ret = TRUE,
                       !.out = <<Div15(d[1]), trimDecAngle(d[2])>>]

getAzAlt(s, e) ==
    LET s1 == send_command(s, <<122>>, 18, e)
        d == parseCoordsResponse(Response(s1, e))
    IN IF s1.ret = 0 THEN [s1 EXCEPT !.ret = FALSE]
       ELSE [s1 EXCEPT !.ret = TRUE, !.out = d]

\* the answer "XXXXXXXX,YYYYYYYY#" of the device to a position query
PosResp(v1, v2) == Hex8(v1) \o <<44>> \o Hex8(v2) \o <<35>>

\* goto targets: (hours or degrees, degrees), in units
Targets ==
    {<<6 * AngleUnit, 45 * AngleUnit>>, <<6 * AngleUnit, 0 - 45 * AngleUnit>>,
     <<AngleUnit, 0 - 30 * AngleUnit>>}
\* what the device answers to a slew, a status poll and a position query
SlewAnswers == {<<>>, <<35>>}
PollAnswers == {<<>>, <<48, 35>>, <<49, 35>>}
PosAnswers ==
    {<<>>} \cup
    {PosResp(dd2pnex(k * t[1]), dd2pnex(t[2])) : k \in {1, 15}, t \in Targets}

(***************************************************************************)
(* Identification: controller version, variant, model.                     *)
(***************************************************************************)
ISNEXSTAR == 17
ISSTARSENSE == 19
\* MINSTSENSVER and the literal 2.2, in thousandths
MINSTSENSVER == 1180
MinModelVersion == 2200

\* atof of "%d.%02d" printed from the two version bytes, in thousandths
Version(major, minor) ==
    major * 1000 + (IF minor < 100 THEN minor * 10 ELSE minor)

getVersion(s, e) ==
    LET s1 == send_command(s, <<86>>, 3, e)
        response == Response(s1, e)
    IN IF s1.ret = 0 THEN [s1 EXCEPT !.ret = FALSE]
       ELSE [s1 EXCEPT !.ret = TRUE,
                       !.out = Version(At(response, 1), At(response, 2))]

getVariant(s, e) ==
    LET s1 == send_command(s, <<118>>, 2, e)
    IN IF s1.ret = 0 THEN [s1 EXCEPT !.ret = FALSE]
       ELSE [s1 EXCEPT !.ret = TRUE, !.out = At(Response(s1, e), 1)]

models ==
    [m \in {1} \cup 3..7 \cup 9..26 |->
        CASE m = 1 -> "GPS Series"
          [] m = 3 -> "i-Series"
          [] m = 4 -> "i-Series SE"
          [] m = 5 -> "CGE"
          [] m = 6 -> "Advanced GT"
          [] m = 7 -> "SLT"
          [] m = 9 -> "CPC"
          [] m = 10 -> "GT"
          [] m = 11 -> "4/5 SE"
          [] m = 12 -> "6/8 SE"
          [] m = 13 -> "CGE Pro"
          [] m = 14 -> "CGEM DX"
          [] m = 15 -> "LCM"
          [] m = 16 -> "Sky Prodigy"
          [] m = 17 -> "CPC Deluxe"
          [] m = 18 -> "GT 16"
          [] m = 19 -> "StarSeeker"
          [] m = 20 -> "AVX"
          [] m = 21 -> "Cosmos"
          [] m = 22 -> "Evolution"
          [] m = 23 -> "CGX"
          [] m = 24 -> "CGXL"
          [] m = 25 -> "Astrofi"
          [] m = 26 -> "SkyWatcher"]

\* _model and *_isGem before getModel stores into them
NoModel == [m |-> 0 - 1, model |-> "", isGem |-> FALSE]

\* an id missing from the table is reported as a failed query
getModel_strict(s, e) ==
    LET s1 == send_command(s, <<109>>, 2, e)
        m == At(Response(s1, e), 1)
    IN IF s1.ret = 0 \/ m \notin DOMAIN models
       THEN [s1 EXCEPT !.ret = FALSE, !.out = NoModel]
       ELSE [s1 EXCEPT !.ret = TRUE,
                       !.out = [m |-> m, model |-> models[m],
                                isGem |-> m \in {5, 6, 13, 14, 20, 23, 24}]]

getModel(s, e) ==
    LET s1 == send_command(s, <<109>>, 2, e)
        m == At(Response(s1, e), 1)
    IN IF s1.ret = 0 THEN [s1 EXCEPT !.ret = FALSE, !.out = NoModel]
       ELSE [s1 EXCEPT !.ret = TRUE,
                       !.out = [m |-> m,
                                model |-> IF m \in DOMAIN models
                                          THEN models[m] ELSE "Unknown",
                                isGem |-> m \in {5, 6, 13, 14, 20, 23, 24}]]

\* what the device answers to 'V', 'v', 'm' and to the firmware query
VersionAnswers ==
    {<<>>, <<1, 17, 35>>, <<1, 18, 35>>, <<2, 19, 35>>, <<2, 20, 35>>}
VariantAnswers == {<<>>, <<ISNEXSTAR, 35>>, <<ISSTARSENSE, 35>>}
ModelAnswers == {<<>>} \cup {<<m, 35>> : m \in 0..255}
FirmwareAnswers == {<<>>, <<7, 11, 35>>}

(***************************************************************************)
(* Session: connect, disconnect, destructor.                               *)
(***************************************************************************)
\* the C string held in a response buffer
CStr(q) ==
    LET z == {k \in 1..Len(q) : q[k] = 0}
    IN IF z = {} THEN q
       ELSE SubSeq(q, 1, (CHOOSE k \in z : \A j \in z : k <= j) - 1)

\* the echoed bytes are not compared
echo_nocmp(s, e) ==
    LET s1 == send_command(s, <<75, 120>>, 2, e)
    IN [s1 EXCEPT !.ret = (s1.ret # 0)]

echo(s, e) ==
    LET s1 == send_command(s, <<75, 120>>, 2, e)
    IN IF s1.ret = 0 THEN [s1 EXCEPT !.ret = FALSE]
       ELSE [s1 EXCEPT !.ret = (CStr(s1.resp) = <<120, 35>>)]

\* close(fd)
close(s, fd) ==
    IF fd \in s.fds
    THEN [s EXCEPT !.fds = @ \ {fd}, !.closedFds = @ \cup {fd}]
    ELSE [s EXCEPT !.badClose = TRUE]

\* close() without the m_connected test
disconnect_noguard(s) ==
    [close(s, s.m_fd) EXCEPT !.m_connected = FALSE]

disconnect(s) ==
    LET s1 == IF s.m_connected THEN close(s, s.m_fd) ELSE s
    IN [s1 EXCEPT !.m_connected = FALSE]

\* open(_port, O_RDWR): the lowest free descriptor, or -1
open(s, openOk) ==
    LET free == Handles \ s.fds
    IN IF openOk /\ free # {}
       THEN CHOOSE h \in free : \A g \in free : h <= g
       ELSE -1

\* connect() without the m_fd test
connect_noguard(s, openOk) ==
    LET h == open(s, openOk)
    IN IF h = -1
       THEN [s EXCEPT !.m_fd = h, !.ret = FALSE, !.resp = FALSE]
       ELSE [s EXCEPT !.m_fd = h, !.fds = @ \cup {h}, !.resp = TRUE]

\* connect() up to the call of checkConnection(); resp tells whether it is
\* reached
connect(s, openOk) ==
    IF s.m_fd # 0
    THEN [s EXCEPT !.ret = FALSE, !.resp = FALSE]
    ELSE LET h == open(s, openOk)
         IN IF h = -1
            THEN [s EXCEPT !.m_fd = h, !.ret = FALSE, !.resp = FALSE]
            ELSE [s EXCEPT !.m_fd = h, !.fds = @ \cup {h}, !.resp = TRUE]

Commit(s) ==
    /\ m_fd' = s.m_fd
    /\ m_connected' = s.m_connected
    /\ fds' = s.fds
    /\ closedFds' = s.closedFds
    /\ badClose' = s.badClose
    /\ inbuf' = s.inbuf
    /\ inflight' = s.inflight

Fits(s) == Len(s.inbuf) + Len(s.inflight) <= MaxBuf

Entry(op, args, ret) ==
    [op |-> op, args |-> args, ret |-> ret,
     fd0 |-> m_fd, conn0 |-> m_connected, fds0 |-> fds]

\* no call on record
NoCall ==
    [op |-> "", args |-> <<>>, ret |-> TRUE,
     fd0 |-> 0, conn0 |-> FALSE, fds0 |-> {}]

\* no call is running
NoFrame == [op |-> ""]

\* the object exists, no call is running and the last call's record was dropped
Idle == alive /\ pc = "idle" /\ last.op = ""

\* m_connected before the first connect(): the constructor's initialiser list
\* does not name it; the session is taken to start Disconnected
InitiallyConnected == FALSE

\* Celestron::Celestron()
Init ==
    /\ m_fd = 0
    /\ m_connected = InitiallyConnected
    /\ fds = {}
    /\ closedFds = {}
    /\ badClose = FALSE
    /\ inbuf = <<>>
    /\ inflight = <<>>
    /\ pc = "idle"
    /\ i = 0
    /\ alive = TRUE
    /\ last = NoCall
    /\ log = <<>>
    /\ frame = NoFrame

\* connect(): the already-connected test, open() and the tty setup
Connect ==
    /\ Idle
    /\ \E openOk \in BOOLEAN :
        LET s == connect(Self, openOk)
        IN /\ Commit(s)
           /\ log' = <<>>
           /\ i' = 0
           /\ last' = Entry("connect", <<>>, FALSE)
           /\ pc' = IF s.resp THEN "check" ELSE "idle"
    /\ UNCHANGED <<alive, frame>>

\* one iteration of checkConnection()'s loop, and connect()'s return after it
CheckConnection ==
    /\ alive
    /\ pc = "check"
    /\ \E e \in Envs(2) :
        LET s == echo([Self EXCEPT !.log = log], e)
        IN /\ Fits(s)
           /\ log' = s.log
           /\ IF s.ret
              THEN /\ Commit([s EXCEPT !.m_connected = TRUE])
                   /\ last' = [last EXCEPT !.ret = TRUE]
                   /\ pc' = "idle"
                   /\ i' = 0
              ELSE IF i + 1 < 2
              THEN /\ Commit(s)
                   /\ i' = i + 1
                   /\ UNCHANGED <<last, pc>>
              ELSE /\ Commit([s EXCEPT !.m_connected = FALSE])
                   /\ last' = [last EXCEPT !.ret = FALSE]
                   /\ pc' = "idle"
                   /\ i' = 0
    /\ UNCHANGED <<alive, frame>>

Disconnect ==
    /\ Idle
    /\ Commit(disconnect(Self))
    /\ log' = <<>>
    /\ last' = Entry("disconnect", <<>>, TRUE)
    /\ UNCHANGED <<pc, i, alive, frame>>

\* ~Celestron()
Destructor ==
    /\ Idle
    /\ Commit(disconnect(Self))
    /\ log' = <<>>
    /\ last' = Entry("~Celestron", <<>>, TRUE)
    /\ alive' = FALSE
    /\ UNCHANGED <<pc, i, frame>>

\* a call that is one send_command exchange: mutate, record, return
Call(s, op, args) ==
    /\ Fits(s)
    /\ Commit(s)
    /\ log' = s.log
    /\ last' = Entry(op, args, s.ret)
    /\ UNCHANGED <<pc, i, alive, frame>>

SendCommand ==
    /\ Idle
    /\ \E cmd \in Cmds, n \in CmdRespLens : \E e \in Envs(Len(cmd)) :
        Call(send_command(Self, cmd, n, e), "send_command", <<cmd, n>>)

SendPassthrough ==
    /\ Idle
    /\ \E d \in Dests, c \in CmdIds, p \in Payloads, r \in RespLens :
        \E e \in Envs(8) :
            Call(send_passthrough(Self, d, c, p, r, e), "send_passthrough",
                 [dest |-> d, id |-> c, payload |-> p, rlen |-> r])

GetDevFirmware ==
    /\ Idle
    /\ \E d \in Dests : \E e \in Envs(8) :
        Call(getDevFirmware(Self, d, e), "getDevFirmware", d)

Move ==
    /\ Idle
    /\ \E d \in Directions, r \in SlewRates : \E e \in Envs(8) :
        Call(move(Self, d, r, e), "move", [dir |-> d, rate |-> r])

Stop ==
    /\ Idle
    /\ \E d \in Directions : \E e \in Envs(8) :
        Call(stop(Self, d, e), "stop", [dir |-> d])

SendPulse ==
    /\ Idle
    /\ \E d \in Directions, r \in PulseRates, t \in Durations :
        \E e \in Envs(8) :
            Call(sendPulse(Self, d, r, t, e), "sendPulse",
                 [dir |-> d, rate |-> r, dur |-> t])

\* a byte on the line reaches the input buffer between two calls
Arrive ==
    /\ Idle
    /\ inflight # <<>>
    /\ inbuf' = Append(inbuf, Head(inflight))
    /\ inflight' = Tail(inflight)
    /\ UNCHANGED <<m_fd, m_connected, fds, closedFds, badClose, pc, i, alive,
                   last, log, frame>>

\* the record of the finished call is dropped; the program's state is untouched
Forget ==
    /\ pc = "idle"
    /\ last.op # ""
    /\ last' = NoCall
    /\ log' = <<>>
    /\ frame' = NoFrame
    /\ UNCHANGED <<m_fd, m_connected, fds, closedFds, badClose, inbuf,
                   inflight, pc, i, alive>>

Next ==
    \/ Connect
    \/ CheckConnection
    \/ Disconnect
    \/ Destructor
    \/ SendCommand
    \/ SendPassthrough
    \/ GetDevFirmware
    \/ Move
    \/ Stop
    \/ SendPulse
    \/ Arrive
    \/ Forget

Spec == Init /\ [][Next]_vars

(***************************************************************************)
(* gotoRADec / gotoAzAlt: the slew, then the loop                           *)
(*     while (isSlewing()) { usleep(1000); getRADec(&ra, &dec); }           *)
(* one step per call made, and the comparison on return.                    *)
(***************************************************************************)
\* slewRADec(_ra, _dec) or slewAzAlt(_az, _alt); ra and dec are declared
GotoSlew ==
    /\ Idle
    /\ \E op \in {"gotoRADec", "gotoAzAlt"}, t \in Targets :
        \E e \in EnvsOf(18, SlewAnswers) :
            LET s == IF op = "gotoRADec" THEN slewRADec(Self, t[1], t[2], e)
                     ELSE slewAzAlt(Self, t[1], t[2], e)
            IN /\ Fits(s)
               /\ Commit(s)
               /\ log' = s.log
               /\ last' = Entry(op, t, FALSE)
               /\ frame' = [op |-> op, target |-> t, slewOk |-> s.ret # 0,
                            assigned |-> FALSE, pos |-> <<Exact(0), Exact(0)>>,
                            posAt |-> "none", slewing |-> FALSE, poll |-> ""]
               /\ pc' = "poll"
    /\ UNCHANGED <<i, alive>>

\* what the status poll got from the device
Polled(x) ==
    IF ~x.ok THEN IF x.ret = 0 THEN "failed" ELSE "junk"
    ELSE IF x.ret = 0 THEN "failed"
    ELSE IF x.got[1] = 48 THEN "idle" ELSE "slewing"

\* the loop condition: isSlewing()
GotoPoll ==
    /\ alive
    /\ pc = "poll"
    /\ \E e \in EnvsOf(1, PollAnswers) :
        LET s == isSlewing(Self, e)
        IN /\ Fits(s)
           /\ Commit(s)
           /\ log' = s.log
           /\ frame' = [frame EXCEPT
                           !.slewing = s.ret,
                           !.poll = Polled(s.log[1]),
                           !.posAt = IF @ = "after" THEN "before" ELSE @]
           /\ pc' = "test"
    /\ UNCHANGED <<i, alive, last>>

\* ra == _ra && dec == _dec; ra and dec are indeterminate until assigned
Reached ==
    IF frame.assigned
    THEN {frame.pos[1] = Exact(frame.target[1])
            /\ frame.pos[2] = Exact(frame.target[2])}
    ELSE BOOLEAN

\* the loop's branch: into the body, or out to the return statement
GotoTest ==
    /\ alive
    /\ pc = "test"
    /\ IF frame.slewing
       THEN /\ pc' = "body"
            /\ UNCHANGED last
       ELSE /\ pc' = "idle"
            /\ \E b \in Reached : last' = [last EXCEPT !.ret = b]
    /\ UNCHANGED <<m_fd, m_connected, fds, closedFds, badClose, inbuf,
                   inflight, i, alive, log, frame>>

\* the loop's body: usleep(1000); getRADec(&ra, &dec) or getAzAlt(&az, &alt)
GotoBody ==
    /\ alive
    /\ pc = "body"
    /\ \E e \in EnvsOf(1, PosAnswers) :
        LET s == IF frame.op = "gotoRADec" THEN getRADec(Self, e)
                 ELSE getAzAlt(Self, e)
        IN /\ Fits(s)
           /\ Commit(s)
           /\ log' = s.log
           /\ frame' = IF s.ret
                       THEN [frame EXCEPT !.assigned = TRUE, !.pos = s.out,
                                          !.posAt = "after"]
                       ELSE frame
           /\ pc' = "poll"
    /\ UNCHANGED <<i, alive, last>>

NextGoto ==
    \/ Connect
    \/ CheckConnection
    \/ Disconnect
    \/ GotoSlew
    \/ GotoPoll
    \/ GotoTest
    \/ GotoBody
    \/ Forget

SpecGoto == Init /\ [][NextGoto]_vars

\* the calling thread keeps running: isSlewing() returns (GotoPoll), the loop
\* branches (GotoTest) and the body's calls return (GotoBody), each within
\* its timeouts.  These are the only steps that move pc as stated.
PollReturns == pc = "poll" /\ pc' = "test"
LoopBranches == pc = "test" /\ pc' \in {"body", "idle"}
BodyReturns == pc = "body" /\ pc' = "poll"

SpecGotoFair ==
    /\ SpecGoto
    /\ WF_pc(PollReturns)
    /\ WF_pc(LoopBranches)
    /\ WF_pc(BodyReturns)

(***************************************************************************)
(* getModel as a call of its own, and printFirmware, one step per query.   *)
(***************************************************************************)
GetModel ==
    /\ Idle
    /\ \E e \in EnvsOf(1, ModelAnswers) :
        LET s == getModel(Self, e)
        IN Call(s, "getModel", s.out)

\* what a query of printFirmware was and how it ended
Asked(q, s) == [q |-> q, cmd |-> s.log[1].cmd, ok |-> s.ret]

\* getVersion(version, 8), controllerVersion = atof(version)
FwVersion ==
    /\ Idle
    /\ \E e \in EnvsOf(1, VersionAnswers) :
        LET s == getVersion(Self, e)
        IN /\ Fits(s)
           /\ Commit(s)
           /\ log' = s.log
           /\ last' = Entry("printFirmware", <<>>, FALSE)
           /\ frame' = [op |-> "printFirmware",
                        asked |-> <<Asked("V", s)>>,
                        controllerVersion |-> IF s.ret THEN s.out ELSE 0,
                        controllerVariant |-> ISNEXSTAR]
           /\ pc' = IF s.ret THEN "variant" ELSE "idle"
    /\ UNCHANGED <<i, alive>>

\* the model is asked for whatever the variant and the version
WantsModel_always(variant, version) == TRUE

\* the condition under which the model is asked for
WantsModel(variant, version) ==
    \/ variant = ISSTARSENSE /\ version >= MINSTSENSVER
    \/ version >= MinModelVersion

\* getVariant(&controllerVariant), its result not looked at
FwVariant ==
    /\ alive
    /\ pc = "variant"
    /\ \E e \in EnvsOf(1, VariantAnswers) :
        LET s == getVariant(Self, e)
            variant == IF s.ret THEN s.out ELSE frame.controllerVariant
        IN /\ Fits(s)
           /\ Commit(s)
           /\ log' = s.log
           /\ frame' = [frame EXCEPT !.asked = Append(@, Asked("v", s)),
                                     !.controllerVariant = variant]
           /\ pc' = IF WantsModel(variant, frame.controllerVersion)
                    THEN "model" ELSE "ra"
    /\ UNCHANGED <<i, alive, last>>

\* getModel(model, 16, &isGem)
FwModel ==
    /\ alive
    /\ pc = "model"
    /\ \E e \in EnvsOf(1, {<<>>, <<5, 35>>, <<99, 35>>}) :
        LET s == getModel(Self, e)
        IN /\ Fits(s)
           /\ Commit(s)
           /\ log' = s.log
           /\ frame' = [frame EXCEPT !.asked = Append(@, Asked("m", s))]
           /\ pc' = IF s.ret THEN "ra" ELSE "idle"
    /\ UNCHANGED <<i, alive, last>>

\* getDevFirmware(CELESTRON_DEV_RA, RAVersion, 8)
FwRA ==
    /\ alive
    /\ pc = "ra"
    /\ \E e \in EnvsOf(8, FirmwareAnswers) :
        LET s == getDevFirmware(Self, CELESTRON_DEV_RA, e)
        IN /\ Fits(s)
           /\ Commit(s)
           /\ log' = s.log
           /\ frame' = [frame EXCEPT !.asked = Append(@, Asked("RA", s))]
           /\ pc' = IF s.ret THEN "dec" ELSE "idle"
    /\ UNCHANGED <<i, alive, last>>

\* getDevFirmware(CELESTRON_DEV_DEC, DEVersion, 8), return true
FwDEC ==
    /\ alive
    /\ pc = "dec"
    /\ \E e \in EnvsOf(8, FirmwareAnswers) :
        LET s == getDevFirmware(Self, CELESTRON_DEV_DEC, e)
        IN /\ Fits(s)
           /\ Commit(s)
           /\ log' = s.log
           /\ frame' = [frame EXCEPT !.asked = Append(@, Asked("DEC", s))]
           /\ last' = [last EXCEPT !.ret = s.ret]
           /\ pc' = "idle"
    /\ UNCHANGED <<i, alive>>

NextIdent ==
    \/ Connect
    \/ CheckConnection
    \/ Disconnect
    \/ GetModel
    \/ FwVersion
    \/ FwVariant
    \/ FwModel
    \/ FwRA
    \/ FwDEC
    \/ Forget

SpecIdent == Init /\ [][NextIdent]_vars

(***************************************************************************)
(* The conversions on their own: an input is drawn, a conversion is         *)
(* applied to it.                                                          *)
(***************************************************************************)
\* how many turns the angles drawn reach above zero
MaxTurns == 2
\* angles in units, from one turn below zero
Angles == (0 - Turn)..(MaxTurns * Turn)

\* coordinates in millionths of a degree, around the places where the
\* seconds and the minutes carry
Fractions ==
    0..150 \cup 16600..16700 \cup {500000} \cup 983300..983400
        \cup 999800..999999
SexInputs ==
    UNION {{deg * Micro + f, 0 - (deg * Micro + f)} :
              deg \in {0, 10, 179}, f \in Fractions}

InitAngles ==
    /\ m_fd = 0
    /\ m_connected = InitiallyConnected
    /\ fds = {}
    /\ closedFds = {}
    /\ badClose = FALSE
    /\ inbuf = <<>>
    /\ inflight = <<>>
    /\ pc = "idle"
    /\ i = 0
    /\ alive = TRUE
    /\ last = NoCall
    /\ log = <<>>
    /\ \/ \E n \in Angles : frame = [op |-> "angle", v |-> n]
       \/ \E n \in SexInputs : frame = [op |-> "value", v |-> n]

Dd2pnex ==
    /\ frame.op = "angle"
    /\ frame' = [op |-> "dd2pnex", v |-> frame.v, raw |-> dd2pnex(frame.v)]
    /\ UNCHANGED <<m_fd, m_connected, fds, closedFds, badClose, inbuf,
                   inflight, pc, i, alive, last, log>>

\* on a whole number of units, and on the angle a NexStar angle decodes to
TrimDecAngle ==
    /\ frame.op = "angle"
    /\ \E d \in {Exact(frame.v), pnex2dd(dd2pnex(frame.v))} :
        frame' = [op |-> "trimDecAngle", v |-> frame.v, angle |-> d,
                  trimmed |-> trimDecAngle(d)]
    /\ UNCHANGED <<m_fd, m_connected, fds, closedFds, badClose, inbuf,
                   inflight, pc, i, alive, last, log>>

GetSexComponents ==
    /\ frame.op = "value"
    /\ \E c \in getSexComponents(frame.v) :
        frame' = [op |-> "getSexComponents", v |-> frame.v,
                  d |-> c.d, m |-> c.m, s |-> c.s]
    /\ UNCHANGED <<m_fd, m_connected, fds, closedFds, badClose, inbuf,
                   inflight, pc, i, alive, last, log>>

NextAngles ==
    \/ Dd2pnex
    \/ TrimDecAngle
    \/ GetSexComponents

SpecAngles == InitAngles /\ [][NextAngles]_vars

(***************************************************************************)
(* setLocation as a call on the session.                                   *)
(***************************************************************************)
SetLocation ==
    /\ Idle
    /\ \E long \in Longitudes, lat \in Latitudes :
        \E e \in EnvsOf(9, {<<>>, <<35>>}) :
            \E s \in setLocation(Self, long, lat, e) :
                Call(s, "setLocation", [longitude |-> long, latitude |-> lat])

NextLocation ==
    \/ Connect
    \/ CheckConnection
    \/ Disconnect
    \/ SetLocation
    \/ Forget

SpecLocation == Init /\ [][NextLocation]_vars

(***************************************************************************)
(* Properties.                                                             *)
(***************************************************************************)
\* the call op has returned and its record is still held
Returned(op) == pc = "idle" /\ last.op = op

Exchanges == {k \in 1..Len(log) : TRUE}

\* C1: a send_command call reports success (non-zero) only if exactly the
\* expected number of response bytes was read from the device during the
\* call, in every session state; fewer bytes read means failure (0).
C1_SuccessOnlyIfExactRead ==
    (Returned("send_command") /\ last.ret # 0)
        => (Len(log) = 1 /\ Len(log[1].got) = log[1].rlen)

EchoMatched(x) == x.got = <<120, 35>>

\* C2: during connect the echo command "Kx" is sent at most 2 times; connect
\* succeeds if and only if one of the attempts returned exactly "x#"; no echo
\* is sent after a matching attempt; and when the device is reached and never
\* echoes, connect fails after exactly two attempts.
C2_EchoAtMostTwice ==
    /\ pc = "check" =>
        /\ Len(log) <= 1
        /\ \A k \in Exchanges : ~EchoMatched(log[k])
    /\ Returned("connect") =>
        /\ Len(log) <= 2
        /\ \A k \in Exchanges : log[k].cmd = <<75, 120>> /\ log[k].rlen = 2
        /\ last.ret <=> \E k \in Exchanges : EchoMatched(log[k])
        /\ \A k \in Exchanges : EchoMatched(log[k]) => k = Len(log)
        /\ (log # <<>> /\ \A k \in Exchanges : ~EchoMatched(log[k]))
              => (Len(log) = 2 /\ ~last.ret)

\* C2 witness: the device was reached, never echoed, and connect has failed
\* after two attempts
C2_Witness ==
    /\ Returned("connect")
    /\ Len(log) = 2
    /\ ~last.ret
    /\ \A k \in Exchanges : log[k].ok /\ log[k].written = 2

\* connect returned failure without opening a channel, sending a byte or
\* changing the handle it holds
Rejected ==
    /\ ~last.ret
    /\ m_fd = last.fd0
    /\ fds = last.fds0
    /\ log = <<>>

\* C3: connect is rejected as already-connected if and only if the session is
\* Connected when it is called; a Disconnected session (initially, or after
\* disconnect) proceeds to open and check the channel.
C3_RejectedIffConnected ==
    Returned("connect") => (Rejected <=> last.conn0)

\* C4: disconnect closes the channel only if the session is connected and
\* always leaves it Disconnected; called again, or on a session that never
\* connected (also from the destructor), it closes nothing: every close is of
\* a handle the session opened and that is still open.
C4_CloseOnlyWhenConnected ==
    /\ ~badClose
    /\ (Returned("disconnect") \/ Returned("~Celestron")) =>
        /\ ~m_connected
        /\ last.conn0 => fds = last.fds0 \ {last.fd0}
        /\ ~last.conn0 => fds = last.fds0

\* C4 witness: disconnect was called again after the handle had been closed
C4_Witness ==
    /\ Returned("disconnect")
    /\ ~last.conn0
    /\ last.fd0 \in closedFds
    /\ fds = {}

\* C5: whatever connect and disconnect calls were made, and however open and
\* the echo check went, the session has at most one open channel handle.
C5_AtMostOneHandle == Cardinality(fds) <= 1

\* C5 witness: connect was called on a session that already held an open
\* handle
C5_Witness ==
    /\ Returned("connect")
    /\ last.fd0 \in last.fds0
    /\ Cardinality(fds) = 1

\* C6: for every command sent on a session with an open channel the order is
\* flush, write, read, and no byte that was pending in the input buffer
\* before the command is returned as part of its response.
C6_FlushWriteRead ==
    \A k \in Exchanges :
        log[k].ok =>
            /\ log[k].trace = <<"flush", "write", "read">>
            /\ log[k].stale = 0

\* C6 witness: a command found stale input pending, and read a response
C6_Witness ==
    \E k \in Exchanges :
        /\ log[k].ok
        /\ log[k].flushed > 0
        /\ log[k].got # <<>>
        /\ log[k].ret # 0

\* the passthrough frame of the protocol
Frame(dest, id, payload, r) ==
    <<80, Len(payload) + 1, dest, id,
      IF Len(payload) >= 1 THEN payload[1] ELSE 0,
      IF Len(payload) >= 2 THEN payload[2] ELSE 0,
      IF Len(payload) >= 3 THEN payload[3] ELSE 0,
      r>>

\* C7: send_passthrough hands exactly the 8 bytes [0x50, n+1, destination,
\* subCommandId, payload0, payload1, payload2, r] to the channel, unused
\* payload bytes being 0, and requests exactly r+1 response bytes.
C7_PassthroughFrame ==
    Returned("send_passthrough") =>
        /\ Len(log) = 1
        /\ log[1].cmd = Frame(last.args.dest, last.args.id,
                              last.args.payload, last.args.rlen)
        /\ log[1].rlen = last.args.rlen + 1
        /\ log[1].written = 8 => log[1].wire = log[1].cmd

\* C7 witness: the frame 50 02 10 24 <rate> 00 00 00 went out in full
C7_Witness ==
    /\ Returned("send_passthrough")
    /\ last.args.dest = CELESTRON_DEV_RA
    /\ last.args.id = 36
    /\ Len(last.args.payload) = 1
    /\ last.args.rlen = 0
    /\ log[1].written = 8
    /\ log[1].cmd = <<80, 2, 16, 36, 7, 0, 0, 0>>

\* C8: the per-axis firmware query succeeds when the device's response is 2
\* bytes long and when it is 3 bytes long, and fails for every other
\* response length (channel open, command written in full, nothing left on
\* the line from before, the whole response arriving in time).
C8_FirmwareTwoOrThreeBytes ==
    (/\ Returned("getDevFirmware")
     /\ log[1].ok
     /\ log[1].written = 8
     /\ log[1].late0 = 0
     /\ log[1].arrived = log[1].sent)
        => (last.ret <=> log[1].sent \in {2, 3})

AxisOf(dir) == IF dir \in {"N", "S"} THEN 17 ELSE 16
IdOf(dir) == IF dir \in {"N", "W"} THEN 36 ELSE 37

\* C9 as claimed: move and stop each send one passthrough frame to DEC (0x11)
\* for North/South and RA (0x10) for East/West, with sub-command 0x24 for
\* North/West and 0x25 for South/East, one payload byte and expected
\* response length 0.
C9_MoveStopByDirection ==
    ((Returned("move") \/ Returned("stop")) /\ log[1].written = 8) =>
        /\ Len(log) = 1
        /\ log[1].wire[1] = 80
        /\ log[1].wire[2] = 2
        /\ log[1].wire[3] = AxisOf(last.args.dir)
        /\ log[1].wire[4] = IdOf(last.args.dir)
        /\ log[1].wire[8] = 0

\* C9 amended: move and stop each send one passthrough frame to DEC (0x11)
\* for North/South and RA (0x10) for East/West, with one payload byte and
\* expected response length 0; move uses sub-command 0x24 for North/West and
\* 0x25 for South/East with payload rate+1, stop uses sub-command 0x24 with
\* payload 0 for every direction.
C9_MoveByDirectionStopPositive ==
    /\ Returned("move") =>
        /\ Len(log) = 1
        /\ log[1].cmd = <<80, 2, AxisOf(last.args.dir), IdOf(last.args.dir),
                          last.args.rate + 1, 0, 0, 0>>
        /\ log[1].written = 8 => log[1].wire = log[1].cmd
        /\ log[1].rlen = 1
    /\ Returned("stop") =>
        /\ Len(log) = 1
        /\ log[1].cmd = <<80, 2, AxisOf(last.args.dir), 36, 0, 0, 0, 0>>
        /\ log[1].written = 8 => log[1].wire = log[1].cmd
        /\ log[1].rlen = 1

\* C9 witness: stop(South) went out on the wire
C9_Witness ==
    /\ Returned("stop")
    /\ last.args.dir = "S"
    /\ log[1].written = 8

SignedRate(dir, r) == IF dir \in {"N", "W"} THEN r ELSE 0 - r

\* C10 as claimed: for every direction, signed 8-bit rate r and duration d,
\* sendPulse sends one passthrough frame with sub-command 0x26 to DEC for
\* North/South and RA for East/West, whose payload is (r, d) for North/West
\* and (-r, d) for South/East, the rate byte read back as a signed 8-bit
\* value being r respectively the negation of r; expected response length 0.
C10_PulseRateNegated ==
    (Returned("sendPulse") /\ log[1].written = 8) =>
        /\ Len(log) = 1
        /\ log[1].wire[1] = 80
        /\ log[1].wire[2] = 3
        /\ log[1].wire[3] = AxisOf(last.args.dir)
        /\ log[1].wire[4] = 38
        /\ S8(log[1].wire[5]) = SignedRate(last.args.dir, last.args.rate)
        /\ log[1].wire[6] = last.args.dur
        /\ log[1].wire[7] = 0
        /\ log[1].wire[8] = 0
        /\ log[1].rlen = 1

\* C10 amended: the same for every rate r in -127..127; for r = -128 the
\* negation does not fit 8 bits and South/East send the byte 0x80, which
\* reads back as -128.
C10_PulseRateNegatedInRange ==
    Returned("sendPulse") =>
        /\ Len(log) = 1
        /\ log[1].cmd[1] = 80
        /\ log[1].cmd[2] = 3
        /\ log[1].cmd[3] = AxisOf(last.args.dir)
        /\ log[1].cmd[4] = 38
        /\ last.args.rate # -128 =>
              S8(log[1].cmd[5]) = SignedRate(last.args.dir, last.args.rate)
        /\ last.args.rate = -128 => log[1].cmd[5] = 128
        /\ log[1].cmd[6] = last.args.dur
        /\ log[1].cmd[7] = 0
        /\ log[1].cmd[8] = 0
        /\ log[1].written = 8 => log[1].wire = log[1].cmd
        /\ log[1].rlen = 1

\* C10 witness: a pulse to the South at rate 100 went out with rate byte -100
C10_Witness ==
    /\ Returned("sendPulse")
    /\ last.args.dir = "S"
    /\ last.args.rate = 100
    /\ log[1].written = 8
    /\ S8(log[1].cmd[5]) = -100

\* a goto call has returned
GotoReturned == pc = "idle" /\ last.op \in {"gotoRADec", "gotoAzAlt"}

\* C11: gotoRADec / gotoAzAlt issue the slew, poll isSlewing until it reports
\* idle and only then read back the position: when the device has answered
\* the last poll with '0', the position compared on return was obtained by a
\* position query issued after that poll, and the call reports success only
\* if a position was read back, the slew command succeeded and the position
\* read back equals the requested target.
C11_ReadBackAfterIdle ==
    (GotoReturned /\ frame.poll = "idle")
        => /\ frame.posAt = "after"
           /\ last.ret => /\ frame.slewOk
                          /\ frame.assigned
                          /\ frame.pos[1] = Exact(frame.target[1])
                          /\ frame.pos[2] = Exact(frame.target[2])

C13_ModelLookup ==
    (Returned("getModel") /\ log[1].ok /\ log[1].ret # 0)
        => LET m == log[1].got[1]
           IN /\ last.ret
              /\ last.args.model =
                     (IF m \in DOMAIN models THEN models[m] ELSE "Unknown")
              /\ last.args.isGem <=> m \in {5, 6, 13, 14, 20, 23, 24}
              /\ m = 5 => last.args.model = "CGE" /\ last.args.isGem
              /\ m = 7 => last.args.model = "SLT" /\ ~last.args.isGem
              /\ m = 99 => last.args.model = "Unknown"

C13_Witness ==
    /\ Returned("getModel")
    /\ log[1].ok
    /\ log[1].ret # 0
    /\ log[1].got[1] = 99
    /\ last.ret
    /\ last.args.model = "Unknown"

\* the bytes of a query of printFirmware
QueryBytes(q) ==
    CASE q = "V" -> <<86>>
      [] q = "v" -> <<118>>
      [] q = "m" -> <<109>>
      [] q = "RA" -> <<80, 1, 16, 254, 0, 0, 0, 2>>
      [] q = "DEC" -> <<80, 1, 17, 254, 0, 0, 0, 2>>

IsPrefix(p, q) == Len(p) <= Len(q) /\ \A k \in 1..Len(p) : p[k] = q[k]

\* C18: printFirmware issues its queries in the order 'V', 'v', 'm', RA
\* firmware, DEC firmware, each at most once; 'm' is asked only when the
\* variant is StarSense with version >= 1.18 or the version is >= 2.2, and is
\* asked then; once the version query, the model query or a firmware query
\* has failed no further query is sent and printFirmware returns false; it
\* returns true only after all its queries.
C18_QueryOrder ==
    frame.op = "printFirmware"
        => LET asked == frame.asked
               qs == [k \in 1..Len(asked) |-> asked[k].q]
               wanted ==
                   \/ /\ frame.controllerVariant = ISSTARSENSE
                      /\ frame.controllerVersion >= MINSTSENSVER
                   \/ frame.controllerVersion >= MinModelVersion
               failed == {k \in 1..Len(asked) :
                             ~asked[k].ok /\ asked[k].q # "v"}
           IN /\ \/ IsPrefix(qs, <<"V", "v", "m", "RA", "DEC">>)
                 \/ IsPrefix(qs, <<"V", "v", "RA", "DEC">>)
              /\ \A k \in 1..Len(asked) : asked[k].cmd = QueryBytes(qs[k])
              /\ Len(qs) >= 3 => (qs[3] = "m" <=> wanted)
              /\ failed \subseteq {Len(asked)}
              /\ failed # {} => pc = "idle" /\ ~last.ret
              /\ pc = "idle" =>
                     \/ failed # {}
                     \/ qs[Len(qs)] = "DEC" /\ last.ret

C18_Witness ==
    /\ Returned("printFirmware")
    /\ last.ret
    /\ Len(frame.asked) = 5
    /\ frame.asked[3].q = "m"
    /\ log[1].ok
    /\ log[1].written = 8

\* a mod 360 in units, floored
Mod360(n) == n - Turn * (n \div Turn)

\* (a mod 360) * 2^32 - raw * 360 for the angle n and the NexStar angle raw,
\* in units: how far raw * 360 / 2^32 lies below the angle
Residue(n, raw) ==
    (Mod360(n) * 65536 - raw[1] * Turn) * 65536 - raw[2] * Turn

DegreesToRawExamples ==
    /\ frame.v = 0 => frame.raw = <<0, 0>>
    /\ frame.v = Turn => frame.raw = <<0, 0>>
    /\ frame.v = 180 * AngleUnit => frame.raw = <<32768, 0>>

\* C14 as claimed: for every angle a, negative angles and angles >= 360
\* included, dd2pnex(a) is (a mod 360) / 360 * 2^32 rounded to the nearest
\* integer, with the floored modulo; dd2pnex(0) = 0, dd2pnex(360) = 0 and
\* dd2pnex(180) = 0x80000000.
C14_Rounded ==
    frame.op = "dd2pnex"
        => /\ 2 * Residue(frame.v, frame.raw) <= Turn
           /\ 0 - Turn <= 2 * Residue(frame.v, frame.raw)
           /\ DegreesToRawExamples

\* C14: for every angle a, negative angles and angles >= 360 included,
\* dd2pnex(a) is (a mod 360) / 360 * 2^32 rounded down to an integer, with
\* the floored modulo; dd2pnex(0) = 0, dd2pnex(360) = 0 and
\* dd2pnex(180) = 0x80000000.
C14_Truncated ==
    frame.op = "dd2pnex"
        => /\ 0 <= Residue(frame.v, frame.raw)
           /\ Residue(frame.v, frame.raw) < Turn
           /\ DegreesToRawExamples

C14_Witness ==
    /\ frame.op = "dd2pnex"
    /\ frame.v = 0 - 359 * AngleUnit
    /\ frame.raw = <<182, 2912>>

\* C15: for every angle a, trimDecAngle(a) lies in [-90, 90] and
\* trimDecAngle(trimDecAngle(a)) = trimDecAngle(a); after reduction modulo
\* 360, values in [0, 90] are unchanged, values in (90, 270] map to
\* 180 - angle and values in (270, 360] map to angle - 360, so that
\* 100 -> 80 and 300 -> -60.
C15_FoldedAngle ==
    frame.op = "trimDecAngle"
        => LET r == frame.trimmed
               m == Mod360(frame.v)
           IN /\ r.int >= 0 - 90 * AngleUnit
              /\ AtMost(r, 90 * AngleUnit)
              /\ trimDecAngle(r) = r
              /\ frame.angle = Exact(frame.v) =>
                    /\ m <= 90 * AngleUnit => r = Exact(m)
                    /\ (m > 90 * AngleUnit /\ m <= 270 * AngleUnit)
                           => r = Exact(180 * AngleUnit - m)
                    /\ m > 270 * AngleUnit => r = Exact(m - Turn)
              /\ frame.angle = Exact(100 * AngleUnit)
                    => r = Exact(80 * AngleUnit)
              /\ frame.angle = Exact(300 * AngleUnit)
                    => r = Exact(0 - 60 * AngleUnit)

C15_Witness ==
    /\ frame.op = "trimDecAngle"
    /\ frame.angle = Exact(300 * AngleUnit + Turn)
    /\ frame.trimmed = Exact(0 - 60 * AngleUnit)

\* |d| * 3600 + m * 60 + s is |v| to the nearest arcsecond, with
\* 0 <= m, s <= 59 and d carrying the sign of v
SexagesimalOf(v, d, m, s) ==
    LET a == IF v < 0 THEN 0 - v ELSE v
        ad == IF d < 0 THEN 0 - d ELSE d
        whole == a \div Micro
        t == (ad - whole) * 3600 + m * 60 + s
        err == t * (Micro \div 4) - (a % Micro) * 900
    IN /\ 0 <= m /\ m <= 59
       /\ 0 <= s /\ s <= 59
       /\ ad - whole \in {0, 1}
       /\ 2 * err <= Micro \div 4
       /\ 0 - (Micro \div 4) <= 2 * err
       /\ v >= 0 => d >= 0
       /\ v < 0 => d <= 0

\* C16 as claimed: for every v, getSexComponents returns (d, m, s) with
\* 0 <= m, s <= 59 and |d| * 3600 + m * 60 + s equal to |v| rounded to the
\* nearest arcsecond, seconds of 60 carried into the minutes and minutes of
\* 60 into the degrees, the sign of v on the degrees only; 10.999861 gives
\* (11, 0, 0).
C16_SexagesimalAsClaimed ==
    frame.op = "getSexComponents"
        => /\ SexagesimalOf(frame.v, frame.d, frame.m, frame.s)
           /\ frame.v = 10999861
                  => (frame.d = 11 /\ frame.m = 0 /\ frame.s = 0)

\* C16: for every v, getSexComponents returns (d, m, s) with 0 <= m, s <= 59
\* and |d| * 3600 + m * 60 + s equal to |v| rounded to the nearest
\* arcsecond, seconds of 60 carried into the minutes and minutes of 60 into
\* the degrees, the sign of v on the degrees only; 10.999861 gives
\* (10, 59, 59) and 10.999862 gives (11, 0, 0).
C16_Sexagesimal ==
    frame.op = "getSexComponents"
        => /\ SexagesimalOf(frame.v, frame.d, frame.m, frame.s)
           /\ frame.v = 10999861
                  => (frame.d = 10 /\ frame.m = 59 /\ frame.s = 59)
           /\ frame.v = 10999862
                  => (frame.d = 11 /\ frame.m = 0 /\ frame.s = 0)
           /\ frame.v = 0 - 10999862
                  => (frame.d = 0 - 11 /\ frame.m = 0 /\ frame.s = 0)

C16_Witness ==
    /\ frame.op = "getSexComponents"
    /\ frame.v = 10999862
    /\ frame.d = 11
    /\ frame.m = 0
    /\ frame.s = 0

\* C17: when write() accepts fewer bytes than the command has (writen returns
\* less than the command's length), send_command reports failure for that
\* call, whatever bytes the device delivers afterwards.
C17_ShortWriteFails ==
    (/\ Returned("send_command")
     /\ log[1].ok
     /\ log[1].written < Len(log[1].cmd))
        => last.ret = 0

\* C19: whenever connect returns failure because the port cannot be opened
\* or both echo checks fail, the session is Disconnected and holds no open
\* handle, and m_fd is back at the value that lets a later connect through;
\* between calls a handle is open only if the session is Connected.
C19_FailedConnectReleases ==
    (alive /\ pc = "idle")
        => /\ fds # {} => m_connected
           /\ (Returned("connect") /\ ~last.ret /\ last.fd0 = 0)
                  => (~m_connected /\ fds = {} /\ m_fd = 0)

\* C20: for every latitude and longitude the 'W' command that setLocation
\* puts on the wire has 9 bytes: 'W', then for the latitude and for the
\* longitude (less 360 when above 180) the bytes |degrees|, minutes, seconds
\* and a hemisphere byte that is 0 for a non-negative coordinate and 1 for a
\* negative one, coordinates of magnitude below one degree included.
C20_HemisphereBySign ==
    (Returned("setLocation") /\ log[1].written = 9)
        => LET cmd == log[1].wire
               lat == last.args.latitude
               long == IF last.args.longitude > 180 * Micro
                       THEN last.args.longitude - 360 * Micro
                       ELSE last.args.longitude
           IN /\ Len(cmd) = 9
              /\ cmd[1] = 87
              /\ SexagesimalOf(abs(lat), cmd[2], cmd[3], cmd[4])
              /\ cmd[5] = (IF lat < 0 THEN 1 ELSE 0)
              /\ SexagesimalOf(abs(long), cmd[6], cmd[7], cmd[8])
              /\ cmd[9] = (IF long < 0 THEN 1 ELSE 0)

====
